---- MODULE Spec2Model ----
(***************************************************************************)
(* Mesh analysis and optimisation for 3D printing.                         *)
(*                                                                         *)
(* Two call sites implement the pipeline:                                  *)
(*   "fn"     : trimesh_optimize / analyze_mesh_issues in                  *)
(*              src/functions-python/main.py                               *)
(*   "script" : optimize_mesh / analyze_only in                            *)
(*              src/functions/scripts/trimesh_optimize.py                  *)
(*                                                                         *)
(* A run is sequential: load, repair steps (each in its own try/except),   *)
(* transforms (scale, center), statistics and export.  The mesh is kept as *)
(* a topology summary (what the repair calls read and change) and a        *)
(* geometry summary (bounds and centroid as exact rationals over a common  *)
(* denominator; float rounding is not modelled).                           *)
(***************************************************************************)
EXTENDS Integers, Sequences, FiniteSets, TLC

(* ------------------------------ bounds --------------------------------- *)
\* largest initial bounding-box extent per axis (model units)
MaxExtent == 2
\* largest initial number of fillable holes
MaxHoles == 1
\* largest initial number of degenerate faces
MaxDegenerate == 1
\* largest number of library calls that raise in one run
MaxFaults == 2

Axes == 1..3

(* ----------------------- optional values (None) ------------------------ *)
\* Python None is the empty sequence, a present value v is <<v>>.
None == <<>>
Some(v) == <<v>>
IsNone(x) == x = <<>>

(* ------------------------------ rationals ------------------------------ *)
\* A float factor n/d with d > 0; d = 0 is +inf (numpy's x / 0.0 for x > 0).
Rat(n, d) == [n |-> n, d |-> d]
Inf == Rat(1, 0)
IsFinite(f) == f.d > 0

\* Python's f < g on floats
Less(f, g) ==
  IF ~IsFinite(f) THEN FALSE
  ELSE IF ~IsFinite(g) THEN TRUE
  ELSE f.n * g.d < g.n * f.d

RatEq(f, g) ==
  IF IsFinite(f) /\ IsFinite(g) THEN f.n * g.d = g.n * f.d
  ELSE IsFinite(f) = IsFinite(g)

RECURSIVE PyMinFrom(_, _)
PyMinFrom(cur, s) ==
  IF s = <<>> THEN cur
  ELSE PyMinFrom(IF Less(Head(s), cur) THEN Head(s) ELSE cur, Tail(s))

RECURSIVE PyMaxFrom(_, _)
PyMaxFrom(cur, s) ==
  IF s = <<>> THEN cur
  ELSE PyMaxFrom(IF Less(cur, Head(s)) THEN Head(s) ELSE cur, Tail(s))

\* (mutant) the largest ratio is taken instead of the smallest
PyMinTakesMax(s) == PyMaxFrom(Head(s), Tail(s))

\* Python's builtin min over a non-empty list: the first minimal element
PyMin(s) == PyMinFrom(Head(s), Tail(s))

Abs(x) == IF x < 0 THEN -x ELSE x

RECURSIVE Gcd(_, _)
Gcd(a, b) == IF b = 0 THEN a ELSE Gcd(b, a % b)

\* "{:.3f}" / "{:.4f}" of a float: the number of 10^-digits units, rounded
\* to nearest; inf prints as "inf", kept as the pair <<1, 0>>.
Pow10(k) == IF k = 3 THEN 1000 ELSE 10000
FormatFixed(f, digits) ==
  IF ~IsFinite(f) THEN <<1, 0>>
  ELSE LET q == (2 * Abs(f.n) * Pow10(digits) + f.d) \div (2 * f.d)
       IN  <<IF f.n < 0 THEN -q ELSE q>>

(* ------------------------------ geometry ------------------------------- *)
\* kind "ok":        finite vertices; lo/hi are the bounds and cen the
\*                   centroid, all numerators over den.  cen = None while the
\*                   centroid has not been read (it is derived from the
\*                   current faces on demand).
\* kind "collapsed": every vertex at the origin (scaled by 0): all face
\*                   areas are 0 and the area-weighted centroid is undefined.
\* kind "nonfinite": vertices hold inf/nan (scaled by inf).
Collapsed == [kind |-> "collapsed", lo |-> <<0, 0, 0>>, hi |-> <<0, 0, 0>>,
              den |-> 1, cen |-> None]
NonFinite == [kind |-> "nonfinite", lo |-> <<0, 0, 0>>, hi |-> <<0, 0, 0>>,
              den |-> 1, cen |-> None]

\* numerator of bounds[1] - bounds[0] (mesh.extents) on axis a
Extent(g, a) == g.hi[a] - g.lo[a]

GcdAll(g) ==
  LET b == Gcd(Gcd(Gcd(Abs(g.lo[1]), Abs(g.lo[2])), Abs(g.lo[3])),
               Gcd(Gcd(Abs(g.hi[1]), Abs(g.hi[2])), Abs(g.hi[3])))
      c == IF IsNone(g.cen) THEN b
           ELSE Gcd(b, Gcd(Gcd(Abs(g.cen[1]), Abs(g.cen[2])), Abs(g.cen[3])))
  IN  Gcd(g.den, c)

\* the same rational coordinates in lowest terms
Normalize(g) ==
  LET k == GcdAll(g)
  IN  [kind |-> g.kind,
       lo |-> [a \in Axes |-> g.lo[a] \div k],
       hi |-> [a \in Axes |-> g.hi[a] \div k],
       den |-> g.den \div k,
       cen |-> IF IsNone(g.cen) THEN None ELSE [a \in Axes |-> g.cen[a] \div k]]

\* mesh.apply_scale(f): every vertex coordinate multiplied by f
ApplyScale(g, f) ==
  IF g.kind # "ok" THEN g
  ELSE IF ~IsFinite(f) THEN NonFinite
  ELSE IF f.n = 0 THEN Collapsed
  ELSE Normalize(
         [kind |-> "ok",
          lo |-> [a \in Axes |-> IF f.n > 0 THEN g.lo[a] * f.n ELSE g.hi[a] * f.n],
          hi |-> [a \in Axes |-> IF f.n > 0 THEN g.hi[a] * f.n ELSE g.lo[a] * f.n],
          den |-> g.den * f.d,
          cen |-> IF IsNone(g.cen) THEN None ELSE [a \in Axes |-> g.cen[a] * f.n]])

\* mesh.centroid read on a finite, non-collapsed mesh: a point inside the
\* bounding box, decided by the current faces; in quarters of the box,
\* k = 1 a quarter of the way along every axis, k = 2 the middle.
CentroidChoices == {1, 2}
CentroidAt(g, k) == [a \in Axes |-> 4 * g.lo[a] + k * Extent(g, a)]

\* mesh.vertices -= mesh.centroid; mesh.vertices[:, 2] -= mesh.bounds[0][2]
CenterOnGround(g, k) ==
  IF g.kind # "ok" THEN g
  ELSE LET c == CentroidAt(g, k)
           lo1 == [a \in Axes |-> 4 * g.lo[a] - c[a]]
           hi1 == [a \in Axes |-> 4 * g.hi[a] - c[a]]
           minz == lo1[3]
       IN  Normalize(
             [kind |-> "ok",
              lo |-> [lo1 EXCEPT ![3] = 0],
              hi |-> [hi1 EXCEPT ![3] = hi1[3] - minz],
              den |-> 4 * g.den,
              cen |-> <<0, 0, -minz>>])

(* ------------------------------ topology ------------------------------- *)
\* nfaces  number of faces             ndegen  degenerate faces among them
\* holes   boundary loops fill_holes can close (triangles and quads)
\* defect  boundary or non-manifold edges no repair call closes
\* windOK  winding consistent          outward normals point outward
IsWatertight(m) == m.holes = 0 /\ ~m.defect

\* trimesh.repair.fill_holes(mesh) / mesh.fill_holes(): returns at once on a
\* watertight mesh, else adds faces closing the fillable holes
fill_holes(m) ==
  IF IsWatertight(m) THEN m
  ELSE [m EXCEPT !.nfaces = m.nfaces + m.holes, !.holes = 0]

\* mesh.fix_normals() / trimesh.repair.fix_normals(mesh): winding made
\* consistent, normals turned outward
fix_normals(m) == [m EXCEPT !.windOK = TRUE, !.outward = TRUE]

\* trimesh.repair.fix_winding(mesh): faces flipped until adjacent faces agree
fix_winding(m) == [m EXCEPT !.windOK = TRUE]

\* trimesh.repair.fix_inversion(mesh): the whole mesh inverted when its
\* signed volume is negative
fix_inversion(m) == IF m.windOK THEN [m EXCEPT !.outward = TRUE] ELSE m

\* mesh.remove_degenerate_faces(): the degenerate faces are dropped, h is the
\* number of fillable holes afterwards (dropping faces can open boundaries)
remove_degenerate_faces(m, h) ==
  [m EXCEPT !.nfaces = m.nfaces - m.ndegen, !.ndegen = 0, !.holes = h]

HolesAfterRemoval(m) == IF m.ndegen = 0 THEN {m.holes} ELSE m.holes..MaxHoles

CallEffect(call, m) ==
  CASE call = "fill_holes" -> fill_holes(m)
    [] call = "fill_holes_again" -> fill_holes(m)
    [] call = "fix_normals" -> fix_normals(m)
    [] call = "repair_fix_normals" -> fix_normals(m)
    [] call = "fix_winding" -> fix_winding(m)
    [] call = "fix_inversion" -> fix_inversion(m)

\* The calls of one try block run in order against the mesh, in place, until
\* one raises: [mesh, raised], raised = None or Some(call).  A call that
\* raises is taken to leave the mesh as it found it.
RECURSIVE RunCalls(_, _, _)
RunCalls(calls, m, bad) ==
  IF calls = <<>> THEN [mesh |-> m, raised |-> None]
  ELSE IF Head(calls) \in bad THEN [mesh |-> m, raised |-> Some(Head(calls))]
  ELSE RunCalls(Tail(calls), CallEffect(Head(calls), m), bad)

(* ------------------------------ options -------------------------------- *)
\* target_size: kind "none" (absent or null), "empty" ({}), or "dict" with
\* width/height/depth each None or Some(mm).
NoTarget == [kind |-> "none", width |-> None, height |-> None, depth |-> None]
EmptyTarget == [kind |-> "empty", width |-> None, height |-> None, depth |-> None]
TargetDicts == [kind : {"dict"}, width : {None, Some(2)}, height : {None, Some(1)},
                depth : {None, Some(2)}]
TargetSizes == {NoTarget, EmptyTarget} \cup TargetDicts

\* uniform_scale: None or Some(factor)
UniformScales == {None, Some(Rat(0, 1)), Some(Rat(2, 1)), Some(Rat(1, 2)), Some(Rat(-1, 1))}

\* print_bed_size: None or Some(<<width, height, depth>>) in mm
PrintBeds == {None, Some(<<1, 1, 1>>), Some(<<4, 4, 4>>)}

TargetOf(t, a) == IF a = 1 THEN t.width ELSE IF a = 2 THEN t.height ELSE t.depth

\* Python truthiness of an optional number: neither None nor 0
TruthyNumber(x) == ~IsNone(x) /\ x[1] # 0
TruthyFactor(x) == ~IsNone(x) /\ x[1].n # 0

(* ------------------------- log and warning entries --------------------- *)
\* "name" or "name:<arg>"; arg is None, or the formatted factor
Entry(op, arg) == [op |-> op, arg |-> arg]

ScaleOps == {"scale", "fit_bed", "scale_to_target", "uniform_scale", "fit_to_bed"}
CenterOps == {"center_mesh", "center_and_ground"}

(* --------------------------- scale selection --------------------------- *)
\* A decision: which option was chosen, whether apply_scale ran, with which
\* factor, and the entries appended to the operation log.
Decision(kind, applied, factor, log) ==
  [kind |-> kind, applied |-> applied, factor |-> factor, log |-> log]
NoScale == Decision("none", FALSE, Rat(1, 1), <<>>)

\* t / extent on axis a, extent = Extent(g, a) / g.den
Ratio(t, g, a) == IF Extent(g, a) = 0 THEN Inf ELSE Rat(t * g.den, Extent(g, a))

\* main.py: the axes with a truthy target and a positive extent
FnTargetScales(t, g) ==
  LET counted(a) == TruthyNumber(TargetOf(t, a)) /\ Extent(g, a) > 0
      axes == SelectSeq(<<1, 2, 3>>, counted)
  IN  [i \in 1..Len(axes) |-> Ratio(TargetOf(t, axes[i])[1], g, axes[i])]

\* main.py: (bed * 0.95) / extent, or 1 on an axis of extent 0
FnBedScales(bed, g) ==
  [a \in Axes |-> IF Extent(g, a) > 0
                    THEN Rat(bed[a] * 19 * g.den, 20 * Extent(g, a))
                    ELSE Rat(1, 1)]

FnBedApplies(f) == Less(f, Rat(1, 1))

FnScaleDecision(o, g) ==
  IF o.target_size.kind = "dict" THEN
    LET scales == FnTargetScales(o.target_size, g)
    IN  IF scales # <<>>
          THEN Decision("target", TRUE, PyMin(scales),
                        <<Entry("scale", FormatFixed(PyMin(scales), 3))>>)
          ELSE Decision("target", FALSE, Rat(1, 1), <<>>)
  ELSE IF TruthyFactor(o.uniform_scale) THEN
    Decision("uniform", TRUE, o.uniform_scale[1],
             <<Entry("scale", FormatFixed(o.uniform_scale[1], 3))>>)
  ELSE IF ~IsNone(o.print_bed_size) THEN
    LET f == PyMin(FnBedScales(o.print_bed_size[1], g))
    IN  IF FnBedApplies(f)
          THEN Decision("bed", TRUE, f, <<Entry("fit_bed", FormatFixed(f, 3))>>)
          ELSE Decision("bed", FALSE, Rat(1, 1), <<>>)
  ELSE NoScale

\* script: the axes whose target is not None
ScriptTargetScales(t, g) ==
  LET counted(a) == ~IsNone(TargetOf(t, a))
      axes == SelectSeq(<<1, 2, 3>>, counted)
  IN  [i \in 1..Len(axes) |-> Ratio(TargetOf(t, axes[i])[1], g, axes[i])]

\* script: apply_target_size
apply_target_size(t, g) ==
  LET scales == ScriptTargetScales(t, g)
  IN  IF scales # <<>> THEN Decision("target", TRUE, PyMin(scales), <<>>)
      ELSE Decision("target", FALSE, Rat(1, 1), <<>>)

\* script: fit_to_print_bed, min(bed / extent) * 0.95, always applied
fit_to_print_bed(bed, g) ==
  LET m == PyMin([a \in Axes |-> Ratio(bed[a], g, a)])
      f == IF IsFinite(m) THEN Rat(m.n * 19, m.d * 20) ELSE Inf
  IN  Decision("bed", TRUE, f, <<>>)

ScriptTargetChosen(t) ==
  t.kind = "dict" /\ \E a \in Axes : ~IsNone(TargetOf(t, a))

ScriptScaleDecision(o, g) ==
  IF ScriptTargetChosen(o.target_size) THEN
    LET d == apply_target_size(o.target_size, g)
    IN  [d EXCEPT !.log = <<Entry("scale_to_target", FormatFixed(d.factor, 4))>>]
  ELSE IF ~IsNone(o.uniform_scale) THEN
    Decision("uniform", TRUE, o.uniform_scale[1],
             <<Entry("uniform_scale", <<o.uniform_scale[1].n, o.uniform_scale[1].d>>)>>)
  ELSE IF ~IsNone(o.print_bed_size) THEN
    LET d == fit_to_print_bed(o.print_bed_size[1], g)
    IN  [d EXCEPT !.log = <<Entry("fit_to_bed", FormatFixed(d.factor, 4))>>]
  ELSE NoScale

(* ------------------------------- state --------------------------------- *)
VARIABLES
  site,        \* "fn" or "script"
  opts,        \* the options object of the request
  faults,      \* the library calls that raise in this run
  pc,          \* the step the run is about to execute, or "done"
  mesh,        \* topology of the mesh
  geo,         \* geometry of the mesh
  operations,  \* the operation log
  warnings,    \* the warnings list
  success,     \* the response's success field
  error,       \* what aborted the run: "none", "load", "centroid", "export"
  steps,       \* per repair step: pending, off, guarded, ok, incomplete, failed
  order,       \* the steps whose body ran, in order
  last,        \* the repair step that ran last, "none" before the first
  pre,         \* the topology as it was when that step started
  scaled,      \* the scale step's decision and the geometry it started from
  score        \* analysis only: the printability score returned

vars == <<site, opts, faults, pc, mesh, geo, operations, warnings, success,
          error, steps, order, last, pre, scaled, score>>

RepairSteps == {"degenerate", "fill", "normals", "watertight"}

\* (mutant) main.py fixes the normals before it fills the holes
FnPipelineNormalsFirst ==
  <<"load", "normals", "fill", "watertight", "center", "scale", "export">>

\* the order of the steps in trimesh_optimize (main.py)
FnPipeline == <<"load", "fill", "normals", "watertight", "center", "scale", "export">>

\* (mutant) the script centers before it scales
ScriptPipelineCenterFirst ==
  <<"load", "degenerate", "fill", "normals", "watertight", "center", "scale", "export">>

\* the order of the steps in optimize_mesh (script)
ScriptPipeline ==
  <<"load", "degenerate", "fill", "normals", "watertight", "scale", "center", "export">>

Pipeline(s) == IF s = "fn" THEN FnPipeline ELSE ScriptPipeline

IndexOf(seq, x) == CHOOSE i \in 1..Len(seq) : seq[i] = x
Occurs(seq, x) == \E i \in 1..Len(seq) : seq[i] = x

\* the step after p in the site's pipeline
NextPc(s, p) ==
  LET i == IndexOf(Pipeline(s), p)
  IN  IF i = Len(Pipeline(s)) THEN "done" ELSE Pipeline(s)[i + 1]

FnCalls == {"load", "fill_holes", "fix_normals", "fix_winding", "fill_holes_again", "export"}
ScriptCalls == {"load", "remove_degenerate_faces", "fill_holes", "fix_normals",
                "fix_inversion", "repair_fix_normals", "fix_winding", "export"}
Calls(s) == IF s = "fn" THEN FnCalls ELSE ScriptCalls

\* the outer except clause: the run ends with success = False
Abort(why) ==
  /\ pc' = "done"
  /\ success' = FALSE
  /\ error' = why

\* (mutant) a repair step's failure reaches the outer except clause
OnRepairFailureAborts(step, text) ==
  /\ warnings' = Append(warnings, text)
  /\ steps' = [steps EXCEPT ![step] = "failed"]
  /\ Abort("repair")
  /\ UNCHANGED operations

\* the except clause of a repair step: the warning is recorded and the run
\* goes on with the next step
OnRepairFailure(step, text) ==
  /\ warnings' = Append(warnings, text)
  /\ steps' = [steps EXCEPT ![step] = "failed"]
  /\ pc' = NextPc(site, pc)
  /\ UNCHANGED <<operations, success, error>>

\* (mutant) a repair step that returns without appending to the log
TryStepUnlogged(step, calls, op, text) ==
  LET r == RunCalls(calls, mesh, faults)
  IN  /\ mesh' = r.mesh
      /\ pre' = mesh
      /\ last' = step
      /\ order' = Append(order, step)
      /\ IF IsNone(r.raised)
           THEN /\ steps' = [steps EXCEPT ![step] = "ok"]
                /\ pc' = NextPc(site, pc)
                /\ UNCHANGED <<operations, warnings, success, error>>
           ELSE OnRepairFailure(step, text)

\* a repair step made of a try block over `calls`, logged as `op` on success
TryStep(step, calls, op, text) ==
  LET r == RunCalls(calls, mesh, faults)
  IN  /\ mesh' = r.mesh
      /\ pre' = mesh
      /\ last' = step
      /\ order' = Append(order, step)
      /\ IF IsNone(r.raised)
           THEN /\ operations' = Append(operations, Entry(op, None))
                /\ steps' = [steps EXCEPT ![step] = "ok"]
                /\ pc' = NextPc(site, pc)
                /\ UNCHANGED <<warnings, success, error>>
           ELSE OnRepairFailure(step, text)

\* a repair step whose flag is off
SkipStep(step, why) ==
  /\ steps' = [steps EXCEPT ![step] = why]
  /\ pc' = NextPc(site, pc)
  /\ UNCHANGED <<mesh, pre, last, order, operations, warnings, success, error>>

(* ------------------------------- load ---------------------------------- *)
\* trimesh.load and the scene handling; a failure ends the run
Load ==
  /\ pc = "load"
  /\ IF "load" \in faults
       THEN Abort("load")
       ELSE /\ pc' = NextPc(site, pc)
            /\ UNCHANGED <<success, error>>
  /\ UNCHANGED <<site, opts, faults, mesh, geo, operations, warnings, steps,
                 order, last, pre, scaled, score>>

(* --------------------------- repair steps ------------------------------ *)
\* script only: mesh.remove_degenerate_faces(), not behind a flag
Script_RemoveDegenerate ==
  /\ site = "script" /\ pc = "degenerate"
  /\ pre' = mesh
  /\ last' = "degenerate"
  /\ order' = Append(order, "degenerate")
  /\ IF "remove_degenerate_faces" \in faults
       THEN /\ mesh' = mesh
            /\ OnRepairFailure("degenerate", "remove_degenerate_faces failed")
       ELSE /\ \E h \in HolesAfterRemoval(mesh) : mesh' = remove_degenerate_faces(mesh, h)
            /\ operations' = Append(operations, Entry("remove_degenerate_faces", None))
            /\ steps' = [steps EXCEPT !["degenerate"] = "ok"]
            /\ pc' = NextPc(site, pc)
            /\ UNCHANGED <<warnings, success, error>>
  /\ UNCHANGED <<site, opts, faults, geo, scaled, score>>

Fn_FillHoles ==
  /\ site = "fn" /\ pc = "fill"
  /\ IF opts.fill_holes
       THEN TryStep("fill", <<"fill_holes">>, "fill_holes", "Fill holes failed")
       ELSE SkipStep("fill", "off")
  /\ UNCHANGED <<site, opts, faults, geo, scaled, score>>

Script_FillHoles ==
  /\ site = "script" /\ pc = "fill"
  /\ IF opts.fill_holes
       THEN TryStep("fill", <<"fill_holes">>, "fill_holes", "fill_holes failed")
       ELSE SkipStep("fill", "off")
  /\ UNCHANGED <<site, opts, faults, geo, scaled, score>>

Fn_FixNormals ==
  /\ site = "fn" /\ pc = "normals"
  /\ IF opts.fix_normals
       THEN TryStep("normals", <<"fix_normals">>, "fix_normals", "Fix normals failed")
       ELSE SkipStep("normals", "off")
  /\ UNCHANGED <<site, opts, faults, geo, scaled, score>>

Script_FixNormals ==
  /\ site = "script" /\ pc = "normals"
  /\ IF opts.fix_normals
       THEN TryStep("normals", <<"fix_normals">>, "fix_normals", "fix_normals failed")
       ELSE SkipStep("normals", "off")
  /\ UNCHANGED <<site, opts, faults, geo, scaled, score>>

\* main.py: only on a mesh that is not watertight; fix_winding, fill_holes
\* again, then logged only if the mesh came out watertight
Fn_MakeWatertight ==
  /\ site = "fn" /\ pc = "watertight"
  /\ IF ~opts.make_watertight THEN SkipStep("watertight", "off")
     ELSE IF IsWatertight(mesh) THEN SkipStep("watertight", "guarded")
     ELSE LET r == RunCalls(<<"fix_winding", "fill_holes_again">>, mesh, faults)
          IN  /\ mesh' = r.mesh
              /\ pre' = mesh
              /\ last' = "watertight"
              /\ order' = Append(order, "watertight")
              /\ IF ~IsNone(r.raised)
                   THEN OnRepairFailure("watertight", "Watertight repair failed")
                   ELSE /\ pc' = NextPc(site, pc)
                        /\ UNCHANGED <<success, error>>
                        /\ IF IsWatertight(r.mesh)
                             THEN /\ operations' =
                                       Append(operations, Entry("make_watertight", None))
                                  /\ steps' = [steps EXCEPT !["watertight"] = "ok"]
                                  /\ UNCHANGED warnings
                             ELSE /\ warnings' =
                                       Append(warnings, "Could not make mesh fully watertight")
                                  /\ steps' = [steps EXCEPT !["watertight"] = "incomplete"]
                                  /\ UNCHANGED operations
  /\ UNCHANGED <<site, opts, faults, geo, scaled, score>>

\* script: fix_inversion, fix_normals, fix_winding of trimesh.repair
Script_MakeWatertight ==
  /\ site = "script" /\ pc = "watertight"
  /\ IF opts.make_watertight
       THEN TryStep("watertight", <<"fix_inversion", "repair_fix_normals", "fix_winding">>,
                    "watertight_repair", "watertight_repair failed")
       ELSE SkipStep("watertight", "off")
  /\ UNCHANGED <<site, opts, faults, geo, scaled, score>>

(* ----------------------------- transforms ------------------------------ *)
ScaleStep(d) ==
  /\ scaled' = [kind |-> d.kind, applied |-> d.applied, factor |-> d.factor, before |-> geo]
  /\ geo' = IF d.applied THEN ApplyScale(geo, d.factor) ELSE geo
  /\ operations' = operations \o d.log
  /\ order' = IF d.applied THEN Append(order, "scale") ELSE order
  /\ pc' = NextPc(site, pc)
  /\ UNCHANGED <<site, opts, faults, mesh, warnings, success, error, steps, last,
                 pre, score>>

Fn_Scale == site = "fn" /\ pc = "scale" /\ ScaleStep(FnScaleDecision(opts, geo))

Script_Scale == site = "script" /\ pc = "scale" /\ ScaleStep(ScriptScaleDecision(opts, geo))

\* The centroid of a collapsed mesh is a 0/0: numpy either raises (the
\* weights sum to zero) or yields nan, depending on the path taken.
CenterStep(op) ==
  /\ IF ~opts.center_mesh
       THEN /\ pc' = NextPc(site, pc)
            /\ UNCHANGED <<geo, operations, order, success, error>>
       ELSE \/ /\ geo.kind # "collapsed"
               /\ \E k \in CentroidChoices : geo' = CenterOnGround(geo, k)
               /\ operations' = Append(operations, Entry(op, None))
               /\ order' = Append(order, "center")
               /\ pc' = NextPc(site, pc)
               /\ UNCHANGED <<success, error>>
            \/ /\ geo.kind = "collapsed"
               /\ \/ /\ geo' = NonFinite
                     /\ operations' = Append(operations, Entry(op, None))
                     /\ order' = Append(order, "center")
                     /\ pc' = NextPc(site, pc)
                     /\ UNCHANGED <<success, error>>
                  \/ /\ Abort("centroid")
                     /\ UNCHANGED <<geo, operations, order>>
  /\ UNCHANGED <<site, opts, faults, mesh, warnings, steps, last, pre, scaled, score>>

Fn_Center == site = "fn" /\ pc = "center" /\ CenterStep("center_mesh")

Script_Center == site = "script" /\ pc = "center" /\ CenterStep("center_and_ground")

(* ------------------------- statistics and export ----------------------- *)
\* get_mesh_stats reads the centroid again, then mesh.export; success is set
\* only when both return
Export ==
  /\ pc = "export"
  /\ \/ /\ "export" \notin faults
        /\ pc' = "done"
        /\ success' = TRUE
        /\ UNCHANGED error
     \/ /\ "export" \in faults
        /\ Abort("export")
     \/ /\ geo.kind = "collapsed"
        /\ Abort("centroid")
  /\ UNCHANGED <<site, opts, faults, mesh, geo, operations, warnings, steps,
                 order, last, pre, scaled, score>>

(* ------------------------------ analysis ------------------------------- *)
Max3(e) == LET m == IF e[1] >= e[2] THEN e[1] ELSE e[2] IN IF m >= e[3] THEN m ELSE e[3]
Min3(e) == LET m == IF e[1] <= e[2] THEN e[1] ELSE e[2] IN IF m <= e[3] THEN m ELSE e[3]
Extents(g) == [a \in Axes |-> Extent(g, a)]
\* (mutant) the score is returned without the floor of 1
PyMaxNoFloor(a, b) == b

PyMax(a, b) == IF a >= b THEN a ELSE b

\* main.py: the copy's normals differ from the mesh's after fix_normals
FnNormalsDiffer(m) == fix_normals(m) # m

\* (mutant) the small-model branch also costs a point
FnScoreSmallCosts(m, g, bad) ==
  LET max_dim == Max3(Extents(g))
      min_dim == Min3(Extents(g))
      s1 == IF ~IsWatertight(m) THEN 5 - 2 ELSE 5
      s2 == IF m.ndegen > 0 THEN s1 - 1 ELSE s1
      s3 == IF m.nfaces > 500000 THEN s2 - 1
            ELSE IF m.nfaces < 100 THEN s2 - 1 ELSE s2
      s4 == IF "fix_normals" \in bad THEN s3
            ELSE IF FnNormalsDiffer(m) THEN s3 - 1 ELSE s3
      s5 == IF max_dim > 300 * g.den THEN s4 - 1
            ELSE IF max_dim < 10 * g.den THEN s4 - 1 ELSE s4
      s6 == IF min_dim < 1 * g.den THEN s5 - 1 ELSE s5
  IN  PyMax(1, s6)

\* main.py analyze_mesh_issues: the third component of its result
FnScore(m, g, bad) ==
  LET max_dim == Max3(Extents(g))
      min_dim == Min3(Extents(g))
      s1 == IF ~IsWatertight(m) THEN 5 - 2 ELSE 5
      s2 == IF m.ndegen > 0 THEN s1 - 1 ELSE s1
      s3 == IF m.nfaces > 500000 THEN s2 - 1
            ELSE IF m.nfaces < 100 THEN s2 - 1 ELSE s2
      s4 == IF "fix_normals" \in bad THEN s3
            ELSE IF FnNormalsDiffer(m) THEN s3 - 1 ELSE s3
      s5 == IF max_dim > 300 * g.den THEN s4 - 1 ELSE s4
      s6 == IF min_dim < 1 * g.den THEN s5 - 1 ELSE s5
  IN  PyMax(1, s6)

\* script analyze_only: printability_score
ScriptScore(m) ==
  LET s1 == IF ~IsWatertight(m) THEN 5 - 2 ELSE 5
      s2 == IF m.nfaces > 500000 THEN s1 - 1 ELSE s1
      s3 == IF m.nfaces > 1000000 THEN s2 - 1 ELSE s2
  IN  PyMax(1, s3)

\* trimesh_analyze (main.py): the score of the response
Fn_Analyze ==
  /\ site = "fn" /\ pc = "analyze"
  /\ score' = Some(FnScore(mesh, geo, faults))
  /\ pc' = "done"
  /\ success' = TRUE
  /\ UNCHANGED <<site, opts, faults, mesh, geo, operations, warnings, error,
                 steps, order, last, pre, scaled>>

\* analyze_only (script)
Script_AnalyzeOnly ==
  /\ site = "script" /\ pc = "analyze"
  /\ score' = Some(ScriptScore(mesh))
  /\ pc' = "done"
  /\ success' = TRUE
  /\ UNCHANGED <<site, opts, faults, mesh, geo, operations, warnings, error,
                 steps, order, last, pre, scaled>>

(* ------------------------------ initial states ------------------------- *)
Topologies ==
  {[nfaces |-> 6 + dg, ndegen |-> dg, holes |-> h, defect |-> df, windOK |-> w,
    outward |-> o] :
     dg \in 0..MaxDegenerate, h \in 0..MaxHoles, df \in BOOLEAN, w \in BOOLEAN,
     o \in BOOLEAN}

\* a mesh with surface area: at most one axis of extent 0
ExtentTriples ==
  {e \in [Axes -> 0..MaxExtent] : Cardinality({a \in Axes : e[a] = 0}) <= 1}

Box(e) == [kind |-> "ok", lo |-> <<0, 0, 1>>,
           hi |-> <<e[1], e[2], 1 + e[3]>>, den |-> 1, cen |-> None]

Geometries == {Box(e) : e \in ExtentTriples}

FaultSets(s) == {F \in SUBSET Calls(s) : Cardinality(F) <= MaxFaults}

Options(flags, centers, targets, uniforms, beds) ==
  [fill_holes : flags, fix_normals : flags, make_watertight : flags,
   center_mesh : centers, target_size : targets, uniform_scale : uniforms,
   print_bed_size : beds]

StartCommon ==
  /\ operations = <<>>
  /\ warnings = <<>>
  /\ success = FALSE
  /\ error = "none"
  /\ order = <<>>
  /\ last = "none"
  /\ pre = mesh
  /\ scaled = [kind |-> "pending", applied |-> FALSE, factor |-> Rat(1, 1), before |-> geo]
  /\ score = None

StartOptimize ==
  /\ pc = "load"
  /\ steps = [s \in RepairSteps |->
                IF s = "degenerate" /\ site = "fn" THEN "absent" ELSE "pending"]
  /\ StartCommon

\* every repair flag, topology and fault combination, on one box
InitRepair ==
  /\ site \in {"fn", "script"}
  /\ opts \in Options(BOOLEAN, {TRUE}, {NoTarget}, {None, Some(Rat(2, 1))}, {None})
  /\ faults \in FaultSets(site)
  /\ mesh \in Topologies
  /\ geo = Box(<<2, 1, 1>>)
  /\ StartOptimize

\* every scale option and box, repairs enabled, on one open mesh
InitTransform ==
  /\ site \in {"fn", "script"}
  /\ opts \in Options({TRUE}, BOOLEAN, TargetSizes, UniformScales, PrintBeds)
  /\ faults \in {{}, {"export"}}
  /\ mesh = [nfaces |-> 6, ndegen |-> 0, holes |-> 1, defect |-> FALSE,
             windOK |-> FALSE, outward |-> TRUE]
  /\ geo \in Geometries
  /\ StartOptimize

Init == InitRepair \/ InitTransform

Next ==
  \/ Load
  \/ Script_RemoveDegenerate
  \/ Fn_FillHoles
  \/ Script_FillHoles
  \/ Fn_FixNormals
  \/ Script_FixNormals
  \/ Fn_MakeWatertight
  \/ Script_MakeWatertight
  \/ Fn_Center
  \/ Script_Center
  \/ Fn_Scale
  \/ Script_Scale
  \/ Export

Spec == Init /\ [][Next]_vars

\* analysis requests: meshes around every threshold of the two formulas
FaceCounts == {50, 99, 100, 500000, 500001, 1000000, 1000001}
\* extents in half millimetres: 0.5, 1, 9.5, 10, 300, 300.5
HalfMm == {1, 2, 19, 20, 600, 601}

InitAnalyze ==
  /\ site \in {"fn", "script"}
  /\ opts \in Options({TRUE}, {TRUE}, {NoTarget}, {None}, {None})
  /\ faults \in {{}, {"fix_normals"}}
  /\ \E t \in Topologies, n \in FaceCounts :
       mesh = [t EXCEPT !.nfaces = n]
  /\ \E x \in HalfMm, z \in HalfMm :
       geo = [kind |-> "ok", lo |-> <<0, 0, 0>>, hi |-> <<x, x, z>>, den |-> 2,
              cen |-> None]
  /\ pc = "analyze"
  /\ steps = [s \in RepairSteps |-> "absent"]
  /\ StartCommon

NextAnalyze == Fn_Analyze \/ Script_AnalyzeOnly

SpecAnalyze == InitAnalyze /\ [][NextAnalyze]_vars

(* ======================================================================= *)
(*                                 claims                                  *)
(* ======================================================================= *)
FlagOf(step) ==
  CASE step = "degenerate" -> TRUE
    [] step = "fill" -> opts.fill_holes
    [] step = "normals" -> opts.fix_normals
    [] step = "watertight" -> opts.make_watertight

InPipeline(step) == Occurs(Pipeline(site), step)
Later(s, t) ==
  /\ InPipeline(s) /\ InPipeline(t)
  /\ IndexOf(Pipeline(site), s) < IndexOf(Pipeline(site), t)

Ran(step) == steps[step] \in {"ok", "incomplete", "failed"}

FailureText(step) ==
  IF site = "fn"
    THEN CASE step = "fill" -> "Fill holes failed"
           [] step = "normals" -> "Fix normals failed"
           [] step = "watertight" -> "Watertight repair failed"
           [] step = "degenerate" -> "none"
    ELSE CASE step = "fill" -> "fill_holes failed"
           [] step = "normals" -> "fix_normals failed"
           [] step = "watertight" -> "watertight_repair failed"
           [] step = "degenerate" -> "remove_degenerate_faces failed"

C2_ScoreInRange ==
  pc = "done" => (~IsNone(score) /\ score[1] \in 1..5)

\* an analysis whose penalties add up to more than 4, answered with 1
C2_Witness ==
  /\ pc = "done" /\ site = "fn" /\ score = Some(1)
  /\ ~IsWatertight(mesh) /\ mesh.ndegen > 0 /\ mesh.nfaces > 500000
  /\ Max3(Extents(geo)) > 300 * geo.den /\ Min3(Extents(geo)) < geo.den

B(x) == IF x THEN 1 ELSE 0
Floor1(x) == IF x < 1 THEN 1 ELSE x
MaxDim == Max3(Extents(geo))
MinDim == Min3(Extents(geo))

\* C3 as stated: the score is max(1, 5 - 2[not watertight] - [degenerate
\* faces] - [faces > 500000 or < 100] - [largest extent > 300 or < 10]
\* - [smallest extent < 1]) and nothing else changes it.
C3_Original ==
  pc = "done" =>
    score = Some(Floor1(5 - 2 * B(~IsWatertight(mesh)) - B(mesh.ndegen > 0)
                        - B(mesh.nfaces > 500000 \/ mesh.nfaces < 100)
                        - B(MaxDim > 300 * geo.den \/ MaxDim < 10 * geo.den)
                        - B(MinDim < geo.den)))

\* C3 (amended): analyze_mesh_issues (main.py) returns max(1, 5 - 2[not
\* watertight] - [degenerate faces] - [faces > 500000 or < 100] - [the
\* normals check ran and found normals that fix_normals changes] - [largest
\* extent > 300] - [smallest extent < 1]): a largest extent below 10 costs
\* nothing.  analyze_only (script) returns max(1, 5 - 2[not watertight]
\* - [faces > 500000] - [faces > 1000000]).
C3_ScoreFormula ==
  pc = "done" =>
    IF site = "fn"
      THEN score = Some(Floor1(5 - 2 * B(~IsWatertight(mesh)) - B(mesh.ndegen > 0)
                               - B(mesh.nfaces > 500000 \/ mesh.nfaces < 100)
                               - B("fix_normals" \notin faults
                                   /\ (~mesh.windOK \/ ~mesh.outward))
                               - B(MaxDim > 300 * geo.den)
                               - B(MinDim < geo.den)))
      ELSE score = Some(Floor1(5 - 2 * B(~IsWatertight(mesh))
                               - B(mesh.nfaces > 500000)
                               - B(mesh.nfaces > 1000000)))

\* a clean mesh whose largest extent is below 10 mm, scored 5 by main.py
C3_Witness ==
  /\ pc = "done" /\ site = "fn" /\ score = Some(5)
  /\ MaxDim < 10 * geo.den /\ MinDim >= geo.den

(* ---- the scale step, seen in the state it leaves behind ---------------- *)
AfterScale == scaled.kind # "pending" /\ pc = NextPc(site, "scale")
Before == scaled.before

\* the extent on axis a did not grow over the scale step
NotGrown(a) ==
  /\ geo.kind = "ok"
  /\ Extent(geo, a) * Before.den <= Extent(Before, a) * geo.den

\* the mesh fits inside bed * 0.95 on every axis
FitsBed(bed, g) == \A a \in Axes : Extent(g, a) * 20 <= bed[a] * 19 * g.den

HasOp(ops) == \E i \in 1..Len(operations) : operations[i].op \in ops

\* C4: bed-fit never increases an extent: the factor is applied only when it
\* is < 1.0, and a mesh that already fits inside bed * 0.95 is left
\* unchanged with no bed-fit scale applied.
C4_BedFitNeverGrows ==
  (AfterScale /\ scaled.kind = "bed") =>
    /\ \A a \in Axes : NotGrown(a)
    /\ (scaled.applied => Less(scaled.factor, Rat(1, 1)))
    /\ (FitsBed(opts.print_bed_size[1], Before) =>
          (~scaled.applied /\ geo = Before /\ ~HasOp({"fit_bed", "fit_to_bed"})))

PosOf(seq, Test(_)) == CHOOSE i \in 1..Len(seq) : Test(seq[i])
IsScaleEntry(e) == e.op \in ScaleOps
IsCenterEntry(e) == e.op \in CenterOps
BothTransforms == Occurs(order, "scale") /\ Occurs(order, "center")
ScaleFirst ==
  /\ IndexOf(order, "scale") < IndexOf(order, "center")
  /\ PosOf(operations, IsScaleEntry) < PosOf(operations, IsCenterEntry)
CenterFirst ==
  /\ IndexOf(order, "center") < IndexOf(order, "scale")
  /\ PosOf(operations, IsCenterEntry) < PosOf(operations, IsScaleEntry)

\* C5 as stated: whenever a run both scales and centers, the scale is
\* applied before the centering and is logged before it.
C5_Original == BothTransforms => ScaleFirst

\* C5 (amended): whenever a run both scales and centers, optimize_mesh
\* (script) scales before it centers and logs the scale entry first, while
\* trimesh_optimize (main.py) centers before it scales and logs the
\* centering entry first.
C5_TransformOrder ==
  BothTransforms => IF site = "script" THEN ScaleFirst ELSE CenterFirst

\* a finished script run that scaled and then centered
C5_Witness ==
  /\ pc = "done" /\ success /\ site = "script"
  /\ BothTransforms /\ ScaleFirst

\* C6: after a repair step failed, the mesh handed on is the mesh as it was
\* when the step started.
C6_FailedStepLeavesMesh ==
  (last # "none" /\ steps[last] = "failed") => mesh = pre

\* a requested axis of the scale has extent 0
ZeroAxisRequested ==
  \/ /\ scaled.kind = "target"
     /\ \E a \in Axes : ~IsNone(TargetOf(opts.target_size, a)) /\ Extent(Before, a) = 0
  \/ /\ scaled.kind = "bed"
     /\ \E a \in Axes : Extent(Before, a) = 0

\* C7: a target-size or bed-fit scale on an axis of extent 0 fails with
\* DegenerateExtent, applies no scale and keeps the earlier results.
C7_DegenerateExtent ==
  (AfterScale /\ ZeroAxisRequested) =>
    /\ error = "DegenerateExtent"
    /\ ~scaled.applied
    /\ geo = Before

Specified(a) == ~IsNone(TargetOf(opts.target_size, a))
Target(a) == TargetOf(opts.target_size, a)[1]

\* the axis enters the minimum: main.py needs a truthy target and a positive
\* extent, the script a target that is not None
Counted(a) ==
  IF site = "fn" THEN TruthyNumber(TargetOf(opts.target_size, a)) /\ Extent(Before, a) > 0
  ELSE Specified(a)

\* the extent on axis a was multiplied by f over the scale step
ScaledBy(a, f) ==
  /\ geo.kind = "ok"
  /\ Extent(geo, a) * Before.den * f.d = Extent(Before, a) * f.n * geo.den

\* f is the least of target / extent over the axes in S
LeastRatio(f, S(_)) ==
  /\ \A a \in Axes : S(a) => ~Less(Ratio(Target(a), Before, a), f)
  /\ \E a \in Axes : S(a) /\ RatEq(Ratio(Target(a), Before, a), f)

TargetScaleApplied == AfterScale /\ scaled.kind = "target" /\ scaled.applied

\* C8 as stated: after a target-size scale every specified axis has its
\* target extent and every axis was multiplied by the least target/extent.
C8_Original ==
  TargetScaleApplied =>
    /\ \A a \in Axes : Specified(a) => (geo.kind = "ok" /\ Extent(geo, a) = Target(a) * geo.den)
    /\ LeastRatio(scaled.factor, Specified)
    /\ \A a \in Axes : ScaledBy(a, scaled.factor)

\* C8 (amended): a target-size scale multiplies every axis by one factor, the
\* least target/extent over the counted axes (script: the target is not
\* None; main.py: the target is non-zero and the extent positive); when that
\* factor is finite, every counted axis ends with an extent of at most its
\* target, and the axis with the least ratio ends exactly at its target.
C8_TargetScale ==
  TargetScaleApplied =>
    /\ LeastRatio(scaled.factor, Counted)
    /\ IsFinite(scaled.factor) =>
         /\ \A a \in Axes : ScaledBy(a, scaled.factor)
         /\ \A a \in Axes : Counted(a) => Extent(geo, a) <= Target(a) * geo.den
         /\ \E a \in Axes : Counted(a) /\ Extent(geo, a) = Target(a) * geo.den

\* two axes specified with different ratios: only one reaches its target
C8_Witness ==
  /\ TargetScaleApplied /\ IsFinite(scaled.factor)
  /\ \E a, b \in Axes :
       /\ Counted(a) /\ Counted(b)
       /\ Extent(geo, a) = Target(a) * geo.den
       /\ Extent(geo, b) < Target(b) * geo.den

FillEntry == Entry("fill_holes", None)

\* C9 as stated: on a mesh without boundary edges the fill-holes step
\* changes no face and adds no fill-holes entry to the log.
C9_Original ==
  (last = "fill" /\ IsWatertight(pre)) =>
    (mesh = pre /\ ~Occurs(operations, FillEntry))

\* C9 (amended): on a mesh that has no boundary edges when the fill-holes
\* step starts, the step changes no face; the fill_holes entry is still
\* appended to the log whenever the call returns without raising, and only
\* then.
C9_FillHolesOnWatertight ==
  (last = "fill" /\ IsWatertight(pre)) =>
    /\ mesh = pre
    /\ (steps["fill"] = "ok" <=> Occurs(operations, FillEntry))
    /\ (steps["fill"] = "failed" <=> ~Occurs(operations, FillEntry))

\* the fill-holes step has just run on a watertight mesh and returned
C9_Witness ==
  /\ last = "fill" /\ IsWatertight(pre) /\ steps["fill"] = "ok"
  /\ pc = "normals" /\ mesh = pre

\* C10: a successful run with center_mesh enabled returns a mesh whose
\* minimum Z is 0 and whose centroid has X = Y = 0, whichever scale ran.
C10_CenteredOnGround ==
  (pc = "done" /\ success /\ opts.center_mesh) =>
    /\ geo.kind = "ok"
    /\ geo.lo[3] = 0
    /\ geo.cen[1] = 0 /\ geo.cen[2] = 0


WatertightWarned ==
  \/ Occurs(warnings, "Could not make mesh fully watertight")
  \/ Occurs(warnings, FailureText("watertight"))
WatertightLogged == HasOp({"make_watertight", "watertight_repair"})

\* C11: whenever make_watertight is enabled and the mesh is still not
\* watertight when the watertight-repair step ends, a warning says so, the
\* step is not logged as a successful watertight repair, and the run still
\* ends with success = true.
C11_StillOpenIsWarning ==
  (opts.make_watertight /\ steps["watertight"] \notin {"pending", "absent"}
     /\ ~IsWatertight(mesh)) =>
    /\ WatertightWarned
    /\ ~WatertightLogged
    /\ (pc = "done" => success)

Precedes(x, y) ==
  (Occurs(order, x) /\ Occurs(order, y)) => IndexOf(order, x) < IndexOf(order, y)
Transforms == {"scale", "center"}
RepairOrderKept ==
  /\ Precedes("fill", "normals")
  /\ Precedes("fill", "watertight")
  /\ Precedes("normals", "watertight")
  /\ \A r \in RepairSteps : \A t \in Transforms : Precedes(r, t)
  \* no repair step is still to come once a transform has run
  /\ (\E t \in Transforms : Occurs(order, t)) =>
       \A r \in RepairSteps : steps[r] # "pending"
DegenerateBeforeFill ==
  Occurs(order, "fill") =>
    (Occurs(order, "degenerate") /\ IndexOf(order, "degenerate") < IndexOf(order, "fill"))

\* C12 as stated: with fill_holes enabled the degenerate faces have been
\* removed before hole filling starts; hole filling precedes normal fixing,
\* normal fixing the watertight repair, and every repair any transform.
C12_Original == DegenerateBeforeFill /\ RepairOrderKept

\* C12 (amended): in optimize_mesh (script), with fill_holes enabled, the
\* degenerate-face removal has been attempted before hole filling starts;
\* trimesh_optimize (main.py) has no degenerate-face removal step.  At both
\* call sites hole filling precedes normal fixing, normal fixing precedes
\* the watertight repair, and every repair step has finished before any
\* scale or centering transform is applied.
C12_StepOrder ==
  /\ site = "script" => DegenerateBeforeFill
  /\ site = "fn" => ~Occurs(order, "degenerate")
  /\ RepairOrderKept

\* a finished script run in which every repair and both transforms ran
C12_Witness ==
  /\ pc = "done" /\ success /\ site = "script"
  /\ order = <<"degenerate", "fill", "normals", "watertight", "scale", "center">>

\* the option the stated priority selects: target_size when it names an
\* axis, else uniform_scale when it has a value, else print_bed_size
ExpectedKind(o) ==
  IF o.target_size.kind = "dict" /\ \E a \in Axes : ~IsNone(TargetOf(o.target_size, a))
    THEN "target"
  ELSE IF ~IsNone(o.uniform_scale) THEN "uniform"
  ELSE IF ~IsNone(o.print_bed_size) THEN "bed"
  ELSE "none"

ScaleEntries == {i \in 1..Len(operations) : IsScaleEntry(operations[i])}
ScaleRuns == {i \in 1..Len(order) : order[i] = "scale"}

\* C13: at most one scale is applied and logged per run, chosen by the
\* priority target_size > uniform_scale > print_bed_size, a lower option
\* taking effect exactly when every higher one is absent or names no axis or
\* value; both call sites choose the same option for the same options.
C13_ScalePriority ==
  /\ Cardinality(ScaleEntries) <= 1
  /\ Cardinality(ScaleRuns) <= 1
  /\ AfterScale =>
       /\ scaled.kind = ExpectedKind(opts)
       /\ FnScaleDecision(opts, Before).kind = ScriptScaleDecision(opts, Before).kind

====
